---- MODULE Spec2Model ----
(***************************************************************************)
(* A model of MarkdownRenderer (src/src/markdown-renderer.ts).             *)
(*                                                                         *)
(* Text is a sequence of pieces.  A piece is either one character (issue   *)
(* titles and the cells of parsed tables are sequences of single           *)
(* characters, because the code matches a regular expression on the first  *)
(* and compares and sorts the second), a literal of the renderer ("## ",   *)
(* "#### ", "* ", ...) or an opaque string of the input (a release name, a *)
(* date, a login, a URL).  Every line break is a piece of its own, NL, so  *)
(* that a rendered document can be cut into lines again.                   *)
(*                                                                         *)
(* An optional value (a field that may be undefined) is a sequence of      *)
(* length 0 (absent) or 1 (present).                                       *)
(***************************************************************************)
EXTENDS Integers, Sequences, FiniteSets, TLC

VARIABLES
    options,    \* this.options of the renderer
    releases,   \* the caller's release objects, with their commits and issues
    calls,      \* the number of calls made on the renderer
    lastOp,     \* the method called last ("none" before the first call)
    arg,        \* its argument: the indices of the release (and commit) passed
    input,      \* the release objects as they were when that call began
    output,     \* what it returned (optional: renderContribution may return undefined)
    previous,   \* lastOp, arg and output of the call before it
    lastTarget  \* what getSecurityTestTarget returned last

vars == <<options, releases, calls, lastOp, arg, input, output, previous, lastTarget>>

(***************************************************************************)
(* Bounds of the model.                                                    *)
(***************************************************************************)
\* releases in the input
MaxReleases == 2
\* commits in the input, all releases together
MaxCommits == 2
\* calls on one renderer, where calls are repeated
MaxCalls == 2
\* digits of an issue reference in a generated title
MaxDigits == 2
\* parsed blocks in the input, all issues together
MaxBlocks == 2
\* table rows in the input, all blocks together
MaxRows == 2

(***************************************************************************)
(* Generic helpers on sequences and text.                                  *)
(***************************************************************************)
NL == "\n"

Absent == <<>>

Some(x) == <<x>>

IsPresent(o) == Len(o) > 0

Range(s) == {s[i] : i \in 1..Len(s)}

RECURSIVE Flatten(_)
Flatten(ss) == IF Len(ss) = 0 THEN <<>> ELSE Head(ss) \o Flatten(Tail(ss))

\* Array.prototype.join: the elements separated by sep
RECURSIVE Join(_, _)
Join(ss, sep) ==
    IF Len(ss) = 0 THEN <<>>
    ELSE IF Len(ss) = 1 THEN ss[1]
    ELSE ss[1] \o sep \o Join(Tail(ss), sep)

\* The decimal digits of a non-negative integer, as `${n}` prints it
Digits == <<"0", "1", "2", "3", "4", "5", "6", "7", "8", "9">>

RECURSIVE Decimal(_)
Decimal(n) == IF n < 10 THEN <<Digits[n + 1]>> ELSE Decimal(n \div 10) \o <<Digits[(n % 10) + 1]>>

(***************************************************************************)
(* COMMIT_FIX_REGEX = /(fix|close|resolve)(e?s|e?d)? [T#](\d+)/i           *)
(* matched the way a backtracking engine matches it: leftmost start, the   *)
(* alternatives in the order written, greedy quantifiers.                  *)
(***************************************************************************)
UPPER == <<"A", "B", "C", "D", "E", "F", "G", "H", "I", "J", "K", "L", "M",
           "N", "O", "P", "Q", "R", "S", "T", "U", "V", "W", "X", "Y", "Z">>

LOWER == <<"a", "b", "c", "d", "e", "f", "g", "h", "i", "j", "k", "l", "m",
           "n", "o", "p", "q", "r", "s", "t", "u", "v", "w", "x", "y", "z">>

\* Canonicalize of the i flag: ASCII letters compare without case
Fold(c) == IF \E i \in 1..26 : UPPER[i] = c
           THEN LOWER[CHOOSE i \in 1..26 : UPPER[i] = c]
           ELSE c

IsDigit(c) == c \in Range(Digits)

\* (fix|close|resolve), in the order of the alternation
FIX_WORDS == << <<"f", "i", "x">>,
                <<"c", "l", "o", "s", "e">>,
                <<"r", "e", "s", "o", "l", "v", "e">> >>

\* (e?s|e?d)?, in the order a greedy engine tries it: e present before e
\* absent, s before d, and the whole group skipped last
FIX_SUFFIXES == << <<"e", "s">>, <<"s">>, <<"e", "d">>, <<"d">>, <<>> >>

\* the literal w at position i of t, letters compared without case
LiteralAt(t, i, w) ==
    /\ i + Len(w) - 1 <= Len(t)
    /\ \A k \in 1..Len(w) : Fold(t[i + k - 1]) = Fold(w[k])

\* \d+ from position i: the position after the longest run of digits
RECURSIVE DigitsEnd(_, _)
DigitsEnd(t, i) == IF i <= Len(t) /\ IsDigit(t[i]) THEN DigitsEnd(t, i + 1) ELSE i

\* " [T#](\d+)" from position i: 0, or the position after the match
TailAt(t, i) ==
    IF /\ i + 2 <= Len(t)
       /\ t[i] = " "
       /\ Fold(t[i + 1]) \in {Fold("T"), "#"}
       /\ IsDigit(t[i + 2])
    THEN DigitsEnd(t, i + 2)
    ELSE 0

\* the match that starts at i, takes word w and suffix x and has its
\* digits from d to before e
MatchOf(t, i, d, e) == [index |-> i, end |-> e, g3 |-> SubSeq(t, d, e - 1)]

\* the first of the tries (word, suffix) in the order the engine takes them
FirstTry(tries) ==
    CHOOSE wk \in tries : \A o \in tries : \/ wk[1] < o[1]
                                           \/ wk[1] = o[1] /\ wk[2] <= o[2]

\* the position after word wk[1] and suffix wk[2] from i
AfterWord(i, wk) == i + Len(FIX_WORDS[wk[1]]) + Len(FIX_SUFFIXES[wk[2]])

MatchFrom(t, i, d) == MatchOf(t, i, d, DigitsEnd(t, d))

MatchAmong(t, i, tries) ==
    IF tries = {} THEN Absent ELSE Some(MatchFrom(t, i, AfterWord(i, FirstTry(tries)) + 2))

\* the whole pattern from position i: absent, or the match with its start,
\* the position after it and its capture group 3
MatchAt(t, i) ==
    MatchAmong(t, i, { wk \in (1..Len(FIX_WORDS)) \X (1..Len(FIX_SUFFIXES)) :
                         /\ LiteralAt(t, i, FIX_WORDS[wk[1]])
                         /\ LiteralAt(t, i + Len(FIX_WORDS[wk[1]]), FIX_SUFFIXES[wk[2]])
                         /\ TailAt(t, AfterWord(i, wk)) # 0 })

\* the first present element of a sequence of optional values
FirstPresent(ms) ==
    IF \E i \in 1..Len(ms) : IsPresent(ms[i])
    THEN ms[CHOOSE i \in 1..Len(ms) : IsPresent(ms[i]) /\ \A j \in 1..(i - 1) : ~IsPresent(ms[j])]
    ELSE Absent

\* match gone wrong: the pattern anchored at the start of the title
MatchAnchored(t) == IF Len(t) > 0 THEN MatchAt(t, 1) ELSE Absent

\* String.prototype.match without the g flag: the leftmost match, or absent
Match(t) == FirstPresent([i \in 1..Len(t) |-> MatchAt(t, i)])

\* `Closes [#$3](${baseIssueUrl}$3)` with $3 expanded; baseIssueUrl is an
\* opaque piece that holds no $ pattern
ClosesLink(n, baseIssueUrl) ==
    <<"C", "l", "o", "s", "e", "s", " ", "[", "#">> \o n \o <<"]", "(", baseIssueUrl>> \o n \o <<")">>

\* String.prototype.replace with a regex without the g flag: the first
\* match m is replaced, the text before and after it is kept
ReplaceFix(t, m, baseIssueUrl) ==
    SubSeq(t, 1, m.index - 1) \o ClosesLink(m.g3, baseIssueUrl) \o SubSeq(t, m.end, Len(t))

(***************************************************************************)
(* The renderer.  An operation that rewrites issue titles returns, beside  *)
(* its string, the input objects as the call leaves them.                  *)
(*                                                                         *)
(*   options  [categories, baseIssueUrl, unreleasedName]                   *)
(*   release  [name, date, commits]                                        *)
(*   commit   [categories (optional), githubIssue (optional)]              *)
(*   issue    [number (optional), title, user, pull_request (optional),    *)
(*             parsed_body (optional)]                                     *)
(*   block    [type, header, cells]                                        *)
(***************************************************************************)
UNRELEASED_TAG == "___unreleased___"

\* `[#${issue.number}](${prUrl}) ` when number, pull_request and its
\* html_url are all truthy
PullRequestLink(issue) ==
    IF /\ IsPresent(issue.number) /\ issue.number[1] # 0
       /\ IsPresent(issue.pull_request) /\ issue.pull_request[1].html_url # ""
    THEN <<"[#">> \o Decimal(issue.number[1]) \o <<"](", issue.pull_request[1].html_url, ") ">>
    ELSE <<>>

\* issue.title after the statement of lines 124-126, m being
\* issue.title.match(COMMIT_FIX_REGEX)
TitleAfter(title, m, opts) ==
    IF Len(title) > 0 /\ IsPresent(m) THEN ReplaceFix(title, m[1], opts.baseIssueUrl) ELSE title

RewrittenTitle(title, opts) == TitleAfter(title, Match(title), opts)

\* lines 117-130 for an issue whose title has become title
ContributionOf(commit, issue, title) ==
    [markdown |-> Some(PullRequestLink(issue) \o title
                       \o <<" ([@", issue.user.login, "](", issue.user.html_url, "))">>),
     commit |-> [commit EXCEPT !.githubIssue = Some([issue EXCEPT !.title = title])]]

\* renderContribution: the line (absent without an issue) and the commit
\* with the title the call leaves in it
RenderContribution(commit, opts) ==
    IF ~IsPresent(commit.githubIssue)
    THEN [markdown |-> Absent, commit |-> commit]
    ELSE ContributionOf(commit, commit.githubIssue[1],
                        RewrittenTitle(commit.githubIssue[1].title, opts))

\* one more commit rendered: r is what renderContribution made of commit ref
Rendered(acc, ref, r) ==
    [rendered |-> Append(acc.rendered, r.markdown), commits |-> [acc.commits EXCEPT ![ref] = r.commit]]

\* commits.map(commit => this.renderContribution(commit)) over the commit
\* objects refs points to, in order; a later call sees what an earlier one
\* wrote.  acc is [rendered, commits]
RECURSIVE MapRenderContribution(_, _, _)
MapRenderContribution(acc, refs, opts) ==
    IF Len(refs) = 0 THEN acc
    ELSE MapRenderContribution(
             Rendered(acc, Head(refs), RenderContribution(acc.commits[Head(refs)], opts)),
             Tail(refs), opts)

\* .filter(Boolean) on optional strings: undefined and "" are dropped
RECURSIVE FilterBoolean(_)
FilterBoolean(rendered) ==
    IF Len(rendered) = 0 THEN <<>>
    ELSE IF IsPresent(Head(rendered)) /\ Len(Head(rendered)[1]) > 0
         THEN <<Head(rendered)[1]>> \o FilterBoolean(Tail(rendered))
         ELSE FilterBoolean(Tail(rendered))

\* .map(rendered => `${prefix}* ${rendered}`) with the default prefix ""
Bullets(lines) == [i \in 1..Len(lines) |-> <<"* ">> \o lines[i]]

ContributionListOf(m) ==
    [markdown |-> Join(Bullets(FilterBoolean(m.rendered)), <<NL>>), commits |-> m.commits]

\* renderContributionList
RenderContributionList(commits, refs, opts) ==
    ContributionListOf(MapRenderContribution([rendered |-> <<>>, commits |-> commits], refs, opts))

\* groupByCategory gone wrong: categories[0] === name in place of
\* categories.indexOf(name) !== -1
GroupByFirstCategory(allCommits, opts) ==
    [k \in 1..Len(opts.categories) |->
        [name |-> opts.categories[k],
         commits |-> SelectSeq([j \in 1..Len(allCommits) |-> j],
                         LAMBDA j : /\ IsPresent(allCommits[j].categories)
                                    /\ Len(allCommits[j].categories[1]) > 0
                                    /\ allCommits[j].categories[1][1] = opts.categories[k])]]

\* groupByCategory: per configured category, in configured order, the
\* commits (as references into allCommits) that carry it
GroupByCategory(allCommits, opts) ==
    [k \in 1..Len(opts.categories) |->
        [name |-> opts.categories[k],
         commits |-> SelectSeq([j \in 1..Len(allCommits) |-> j],
                         LAMBDA j : /\ IsPresent(allCommits[j].categories)
                                    /\ opts.categories[k] \in Range(allCommits[j].categories[1]))]]

(***************************************************************************)
(* Security test targets.  The two words of the marker header are written  *)
(* in Japanese in the source (line 180); each is one piece here.           *)
(***************************************************************************)
HEADER_KIND == "shubetsu"

HEADER_TARGET == "shindan-taishou"

TARGET_HEADER == <<HEADER_KIND, ",", HEADER_TARGET>>

TYPE_URL == <<"U", "R", "L">>

API_TYPES == { <<"M", "u", "t", "a", "t", "i", "o", "n">>,
               <<"Q", "u", "e", "r", "y">>,
               <<"S", "u", "b", "s", "c", "r", "i", "p", "t", "i", "o", "n">> }

\* c[k] ?? '' for a row c
CellOrEmpty(c, k) == IF k <= Len(c) THEN c[k] ELSE <<>>

\* lines 190-199 gone wrong: no test of name.length
RowTargetUnchecked(acc, c) ==
    [urls |-> IF CellOrEmpty(c, 1) = TYPE_URL THEN Append(acc.urls, CellOrEmpty(c, 2)) ELSE acc.urls,
     apis |-> IF CellOrEmpty(c, 1) \in API_TYPES
              THEN Append(acc.apis, <<"(">> \o CellOrEmpty(c, 1) \o <<")", " ">> \o CellOrEmpty(c, 2))
              ELSE acc.apis]

\* what one row of a matching table adds to the accumulator
RowTarget(acc, c) ==
    LET name == CellOrEmpty(c, 2)
        type == CellOrEmpty(c, 1)
    IN  IF Len(name) > 0
        THEN [urls |-> IF type = TYPE_URL THEN Append(acc.urls, name) ELSE acc.urls,
              apis |-> IF type \in API_TYPES
                       THEN Append(acc.apis, <<"(">> \o type \o <<")", " ">> \o name)
                       ELSE acc.apis]
        ELSE acc

RECURSIVE RowsTarget(_, _)
RowsTarget(acc, cells) ==
    IF Len(cells) = 0 THEN acc ELSE RowsTarget(RowTarget(acc, Head(cells)), Tail(cells))

\* the test of line 188
IsTargetTable(x) == x.type = "table" /\ Join(x.header, <<",">>) = TARGET_HEADER

RECURSIVE BlocksTarget(_, _)
BlocksTarget(acc, blocks) ==
    IF Len(blocks) = 0 THEN acc
    ELSE BlocksTarget(IF IsTargetTable(Head(blocks)) THEN RowsTarget(acc, Head(blocks).cells) ELSE acc,
                      Tail(blocks))

\* commit.githubIssue?.parsed_body
ParsedBody(commit) ==
    IF IsPresent(commit.githubIssue) THEN commit.githubIssue[1].parsed_body ELSE Absent

RECURSIVE ReduceTarget(_, _)
ReduceTarget(acc, commits) ==
    IF Len(commits) = 0 THEN acc
    ELSE ReduceTarget(IF IsPresent(ParsedBody(Head(commits)))
                      THEN BlocksTarget(acc, ParsedBody(Head(commits))[1])
                      ELSE acc,
                      Tail(commits))

\* getSecurityTestTarget
GetSecurityTestTarget(commits) == ReduceTarget([apis |-> <<>>, urls |-> <<>>], commits)

\* The printable ASCII characters in code order, from the space (32) to
\* the underscore (95) and from a (97) to the tilde (126)
ASCII_32_95 == <<" ", "!", "\"", "#", "$", "%", "&", "'", "(", ")", "*", "+", ",", "-", ".", "/",
                 "0", "1", "2", "3", "4", "5", "6", "7", "8", "9", ":", ";", "<", "=", ">", "?",
                 "@", "A", "B", "C", "D", "E", "F", "G", "H", "I", "J", "K", "L", "M", "N", "O",
                 "P", "Q", "R", "S", "T", "U", "V", "W", "X", "Y", "Z", "[", "\\", "]", "^", "_">>

ASCII_97_126 == <<"a", "b", "c", "d", "e", "f", "g", "h", "i", "j", "k", "l", "m", "n", "o",
                  "p", "q", "r", "s", "t", "u", "v", "w", "x", "y", "z", "{", "|", "}", "~">>

\* the UTF-16 code unit of a character
CodeUnit(c) ==
    IF c \in Range(ASCII_32_95)
    THEN 31 + CHOOSE i \in 1..Len(ASCII_32_95) : ASCII_32_95[i] = c
    ELSE 96 + CHOOSE i \in 1..Len(ASCII_97_126) : ASCII_97_126[i] = c

\* a < b as Array.prototype.sort without a comparator orders two strings:
\* by code unit at the first difference, a proper prefix first
RECURSIVE StringLess(_, _)
StringLess(a, b) ==
    IF Len(b) = 0 THEN FALSE
    ELSE IF Len(a) = 0 THEN TRUE
    ELSE IF Head(a) = Head(b) THEN StringLess(Tail(a), Tail(b))
    ELSE CodeUnit(Head(a)) < CodeUnit(Head(b))

\* self.indexOf(value) === index
OnlyUnique(self, index) == \A j \in 1..(index - 1) : self[j] # self[index]

Pick(self, keep) == [i \in 1..Len(keep) |-> self[keep[i]]]

FilterOnlyUnique(self) ==
    Pick(self, SelectSeq([i \in 1..Len(self) |-> i], LAMBDA i : OnlyUnique(self, i)))

RECURSIVE InsertSorted(_, _)
InsertSorted(x, sorted) ==
    IF Len(sorted) = 0 THEN <<x>>
    ELSE IF StringLess(x, Head(sorted)) THEN <<x>> \o sorted
    ELSE <<Head(sorted)>> \o InsertSorted(x, Tail(sorted))

\* .sort(): ascending, equal strings in their order
RECURSIVE Sort(_)
Sort(xs) == IF Len(xs) = 0 THEN <<>> ELSE InsertSorted(xs[Len(xs)], Sort(SubSeq(xs, 1, Len(xs) - 1)))

WhiteSpace == {" ", NL, "\t", "\r"}

\* String.prototype.trim
RECURSIVE Trim(_)
Trim(t) ==
    IF Len(t) = 0 THEN t
    ELSE IF Head(t) \in WhiteSpace THEN Trim(Tail(t))
    ELSE IF t[Len(t)] \in WhiteSpace THEN Trim(SubSeq(t, 1, Len(t) - 1))
    ELSE t

SECURITY_TITLE == "Security test targets"

\* .map(x => `* ${x}\n`).join("")
RowLines(xs) == Flatten([i \in 1..Len(xs) |-> <<"* ">> \o xs[i] \o <<NL>>])

\* lines 138 and 143 gone wrong: no .filter(onlyUnique)
TargetRowsWithDuplicates(xs) == RowLines(Sort(xs))

\* .filter(onlyUnique).sort().map(x => `* ${x}\n`).join("")
TargetRows(xs) == RowLines(Sort(FilterOnlyUnique(xs)))

\* renderSecurityTestTargetList
RenderSecurityTestTargetList(securityTestTarget) ==
    Trim(<<"#### ", SECURITY_TITLE, NL, NL>>
         \o (IF Len(securityTestTarget.urls) > 0
             THEN <<"##### URL", NL>> \o TargetRows(securityTestTarget.urls) \o <<NL>>
             ELSE <<>>)
         \o (IF Len(securityTestTarget.apis) > 0
             THEN <<"##### API", NL>> \o TargetRows(securityTestTarget.apis) \o <<NL>>
             ELSE <<>>))

(***************************************************************************)
(* renderRelease and renderMarkdown.                                       *)
(***************************************************************************)
\* lines 53-63 for one category: target is what getSecurityTestTarget
\* and list what renderContributionList returned for its commits
CategoryRendered(st, category, target, list) ==
    [markdown |-> st.markdown \o <<NL, NL, "#### ", category.name, NL>> \o list.markdown,
     commits |-> list.commits,
     securityTestTarget |-> [urls |-> st.securityTestTarget.urls \o target.urls,
                             apis |-> st.securityTestTarget.apis \o target.apis]]

Deref(commits, refs) == [i \in 1..Len(refs) |-> commits[refs[i]]]

\* the loop of lines 52-65 over the categories that have commits: st is
\* [markdown, commits, securityTestTarget]
RECURSIVE RenderCategories(_, _, _)
RenderCategories(st, cats, opts) ==
    IF Len(cats) = 0 THEN st
    ELSE RenderCategories(
             CategoryRendered(st, Head(cats),
                              GetSecurityTestTarget(Deref(st.commits, Head(cats).commits)),
                              RenderContributionList(st.commits, Head(cats).commits, opts)),
             Tail(cats), opts)

\* line 72 gone wrong: the apis are not looked at
ReleaseRenderedForUrls(release, st) ==
    [markdown |->
         IF Len(st.securityTestTarget.urls) > 0
         THEN st.markdown \o <<NL, NL>> \o RenderSecurityTestTargetList(st.securityTestTarget)
         ELSE st.markdown,
     release |-> [release EXCEPT !.commits = st.commits]]

\* lines 72-76: the appendix added when there is a target
ReleaseRendered(release, st) ==
    [markdown |->
         IF Len(st.securityTestTarget.urls) > 0 \/ Len(st.securityTestTarget.apis) > 0
         THEN st.markdown \o <<NL, NL>> \o RenderSecurityTestTargetList(st.securityTestTarget)
         ELSE st.markdown,
     release |-> [release EXCEPT !.commits = st.commits]]

\* lines 44-76 gone wrong: release.name in the heading whatever it is
RenderReleaseWithRawName(release, categoriesWithCommits, opts) ==
    IF Len(categoriesWithCommits) = 0
    THEN [markdown |-> <<>>, release |-> release]
    ELSE ReleaseRendered(release,
             RenderCategories(
                 [markdown |-> <<"## ", release.name, " (", release.date, ")">>,
                  commits |-> release.commits,
                  securityTestTarget |-> [urls |-> <<>>, apis |-> <<>>]],
                 categoriesWithCommits, opts))

\* lines 44-76 given the categories that have commits
RenderReleaseWith(release, categoriesWithCommits, opts) ==
    IF Len(categoriesWithCommits) = 0
    THEN [markdown |-> <<>>, release |-> release]
    ELSE ReleaseRendered(release,
             RenderCategories(
                 [markdown |-> <<"## ",
                                 IF release.name = UNRELEASED_TAG THEN opts.unreleasedName ELSE release.name,
                                 " (", release.date, ")">>,
                  commits |-> release.commits,
                  securityTestTarget |-> [urls |-> <<>>, apis |-> <<>>]],
                 categoriesWithCommits, opts))

\* renderRelease gone wrong: the categories without commits are kept
RenderReleaseAllCategories(release, opts) ==
    RenderReleaseWith(release, GroupByCategory(release.commits, opts), opts)

\* renderRelease: the block ("" for a release without commits in any
\* configured category) and the release as the call leaves it
RenderRelease(release, opts) ==
    RenderReleaseWith(release,
        SelectSeq(GroupByCategory(release.commits, opts), LAMBDA c : Len(c.commits) > 0), opts)

Markdowns(r) == [i \in 1..Len(r) |-> Some(r[i].markdown)]

\* line 35
Decorated(out) == IF Len(out) > 0 THEN out \o <<NL, NL>> ELSE <<>>

\* renderMarkdown gone wrong: no .filter(Boolean)
MarkdownRenderedUnfiltered(r) ==
    [output |-> Decorated(Join([i \in 1..Len(r) |-> r[i].markdown], <<NL, NL, NL>>)),
     releases |-> [i \in 1..Len(r) |-> r[i].release]]

MarkdownRendered(r) ==
    [output |-> Decorated(Join(FilterBoolean(Markdowns(r)), <<NL, NL, NL>>)),
     releases |-> [i \in 1..Len(r) |-> r[i].release]]

\* renderMarkdown: the document and the releases as the call leaves them
RenderMarkdown(rels, opts) ==
    MarkdownRendered([i \in 1..Len(rels) |-> RenderRelease(rels[i], opts)])

(***************************************************************************)
(* The state machine: a caller builds releases, then calls the renderer.   *)
(***************************************************************************)
Users == << [login |-> "al", html_url |-> "https://github.com/al"],
            [login |-> "bo", html_url |-> "https://github.com/bo"],
            [login |-> "cy", html_url |-> "https://github.com/cy"],
            [login |-> "di", html_url |-> "https://github.com/di"] >>

\* the j-th commit of a release is given the j-th author
AuthoredBy(c, j) ==
    IF IsPresent(c.githubIssue)
    THEN [c EXCEPT !.githubIssue = Some([c.githubIssue[1] EXCEPT !.user = Users[((j - 1) % Len(Users)) + 1]])]
    ELSE c

RECURSIVE SumLen(_)
SumLen(ss) == IF Len(ss) = 0 THEN 0 ELSE Len(Head(ss)) + SumLen(Tail(ss))

TotalCommits(rels) == SumLen([i \in 1..Len(rels) |-> rels[i].commits])

NoCall == [op |-> "none", arg |-> <<>>, output |-> Absent]

NoTarget == [apis |-> <<>>, urls |-> <<>>]

InitRenderer(opts, rels) ==
    /\ options = opts
    /\ releases = rels
    /\ calls = 0
    /\ lastOp = "none"
    /\ arg = <<>>
    /\ input = rels
    /\ output = Absent
    /\ previous = NoCall
    /\ lastTarget = NoTarget

\* the caller appends a release without commits
AddRelease(name, date) ==
    /\ calls = 0
    /\ Len(releases) < MaxReleases
    /\ releases' = Append(releases, [name |-> name, date |-> date, commits |-> <<>>])
    /\ input' = releases'
    /\ UNCHANGED <<options, calls, lastOp, arg, output, previous, lastTarget>>

\* the caller appends a commit to the last release
AddCommit(c) ==
    /\ calls = 0
    /\ Len(releases) > 0
    /\ TotalCommits(releases) < MaxCommits
    /\ LET n == Len(releases)
           j == Len(releases[n].commits) + 1
       IN  releases' = [releases EXCEPT ![n].commits = Append(@, AuthoredBy(c, j))]
    /\ input' = releases'
    /\ UNCHANGED <<options, calls, lastOp, arg, output, previous, lastTarget>>

Called(op, a, out, rels) ==
    /\ calls' = calls + 1
    /\ previous' = [op |-> lastOp, arg |-> arg, output |-> output]
    /\ lastOp' = op
    /\ arg' = a
    /\ input' = releases
    /\ output' = out
    /\ releases' = rels
    /\ UNCHANGED <<options, lastTarget>>

RECURSIVE SumBlocks(_)
SumBlocks(commits) ==
    IF Len(commits) = 0 THEN 0
    ELSE (IF IsPresent(ParsedBody(Head(commits))) THEN Len(ParsedBody(Head(commits))[1]) ELSE 0)
         + SumBlocks(Tail(commits))

RECURSIVE SumRows(_)
SumRows(commits) ==
    IF Len(commits) = 0 THEN 0
    ELSE (IF IsPresent(ParsedBody(Head(commits)))
          THEN SumLen([n \in 1..Len(ParsedBody(Head(commits))[1]) |->
                          ParsedBody(Head(commits))[1][n].cells])
          ELSE 0)
         + SumRows(Tail(commits))

AllCommits(rels) == Flatten([i \in 1..Len(rels) |-> rels[i].commits])

\* the last commit of the last release has a parsed body
HasLastBody ==
    /\ Len(releases) > 0
    /\ Len(releases[Len(releases)].commits) > 0
    /\ IsPresent(ParsedBody(releases[Len(releases)].commits[Len(releases[Len(releases)].commits)]))

\* the body parser appends block x to the body of the last commit's issue
AddBlock(x) ==
    /\ calls = 0
    /\ HasLastBody
    /\ SumBlocks(AllCommits(releases)) < MaxBlocks
    /\ releases' = [releases EXCEPT
           ![Len(releases)].commits[Len(releases[Len(releases)].commits)].githubIssue[1].parsed_body[1] =
               Append(@, x)]
    /\ input' = releases'
    /\ UNCHANGED <<options, calls, lastOp, arg, output, previous, lastTarget>>

\* the body parser appends row c to the last block of that body
AddRow(c) ==
    /\ calls = 0
    /\ HasLastBody
    /\ Len(ParsedBody(releases[Len(releases)].commits[Len(releases[Len(releases)].commits)])[1]) > 0
    /\ SumRows(AllCommits(releases)) < MaxRows
    /\ releases' = [releases EXCEPT
           ![Len(releases)].commits[Len(releases[Len(releases)].commits)].githubIssue[1].parsed_body[1] =
               [@ EXCEPT ![Len(@)].cells = Append(@, c)]]
    /\ input' = releases'
    /\ UNCHANGED <<options, calls, lastOp, arg, output, previous, lastTarget>>

\* getSecurityTestTarget(releases[i].commits)
CallGetSecurityTestTarget(i, limit) ==
    /\ calls < limit
    /\ calls' = calls + 1
    /\ previous' = [op |-> lastOp, arg |-> arg, output |-> output]
    /\ lastOp' = "getSecurityTestTarget"
    /\ arg' = <<i>>
    /\ input' = releases
    /\ lastTarget' = GetSecurityTestTarget(releases[i].commits)
    /\ UNCHANGED <<options, releases, output>>

\* renderer.renderMarkdown(releases)
RenderMarkdownReturns(r) == Called("renderMarkdown", <<>>, Some(r.output), r.releases)

CallRenderMarkdown(limit) ==
    /\ calls < limit
    /\ RenderMarkdownReturns(RenderMarkdown(releases, options))

\* renderer.renderRelease(releases[i])
RenderReleaseReturns(i, r) ==
    Called("renderRelease", <<i>>, Some(r.markdown), [releases EXCEPT ![i] = r.release])

CallRenderRelease(i, limit) ==
    /\ calls < limit
    /\ RenderReleaseReturns(i, RenderRelease(releases[i], options))

\* renderer.renderContribution(releases[i].commits[j])
RenderContributionReturns(i, j, r) ==
    Called("renderContribution", <<i, j>>, r.markdown, [releases EXCEPT ![i].commits[j] = r.commit])

CallRenderContribution(i, j, limit) ==
    /\ calls < limit
    /\ RenderContributionReturns(i, j, RenderContribution(releases[i].commits[j], options))

(***************************************************************************)
(* Spec: documents of several releases.  The commits differ in their       *)
(* categories and in having an issue; each input is rendered once.         *)
(***************************************************************************)
PlainIssue ==
    [number |-> Some(12), title |-> <<"a", "d", "d", " ", "x">>, user |-> Users[1],
     pull_request |-> Some([html_url |-> "https://github.com/o/r/pull/12"]),
     parsed_body |-> Absent]

DocOptions ==
    { [categories |-> <<"Fixed", "Added">>, baseIssueUrl |-> "https://github.com/o/r/issues/",
       unreleasedName |-> "Unreleased"],
      [categories |-> <<"Added", "Fixed">>, baseIssueUrl |-> "https://github.com/o/r/issues/",
       unreleasedName |-> "Next"] }

DocCommits ==
    { [categories |-> Absent, githubIssue |-> Some(PlainIssue)],
      [categories |-> Some(<<"Fixed">>), githubIssue |-> Some(PlainIssue)],
      [categories |-> Some(<<"Added">>), githubIssue |-> Some(PlainIssue)],
      [categories |-> Some(<<"Fixed", "Added">>), githubIssue |-> Some(PlainIssue)],
      [categories |-> Some(<<"Chore">>), githubIssue |-> Some(PlainIssue)],
      [categories |-> Some(<<"Fixed">>), githubIssue |-> Absent] }

ReleaseNames == {UNRELEASED_TAG, "v1.0.0"}

ReleaseDates == {"2024-01-01"}

Init == \E opts \in DocOptions : InitRenderer(opts, <<>>)

Next ==
    \/ \E name \in ReleaseNames, date \in ReleaseDates : AddRelease(name, date)
    \/ \E c \in DocCommits : AddCommit(c)
    \/ CallRenderMarkdown(1)
    \/ \E i \in 1..Len(releases) : CallRenderRelease(i, 1)

Spec == Init /\ [][Next]_vars

(***************************************************************************)
(* Reading a rendered text again: its lines, its section headings, the     *)
(* lines of one section.                                                   *)
(***************************************************************************)
Breaks(text) ==
    <<0>> \o SelectSeq([i \in 1..Len(text) |-> i], LAMBDA i : text[i] = NL) \o <<Len(text) + 1>>

LinesAt(text, breaks) ==
    [k \in 1..(Len(breaks) - 1) |-> SubSeq(text, breaks[k] + 1, breaks[k + 1] - 1)]

\* the lines of a text, without their line breaks
Lines(text) == LinesAt(text, Breaks(text))

IsCategoryHeading(line) == Len(line) = 2 /\ line[1] = "#### " /\ line[2] # SECURITY_TITLE

IsAppendixHeading(line) == line = <<"#### ", SECURITY_TITLE>>

\* the names of the category sections of a block, in the order they appear
SectionNames(block) ==
    LET hs == SelectSeq(Lines(block), IsCategoryHeading)
    IN  [i \in 1..Len(hs) |-> hs[i][2]]

\* the lines of the section of category k: those that follow its heading,
\* up to the next empty line
SectionOf(block, k) ==
    LET ls == Lines(block)
        hs == {h \in 1..Len(ls) : ls[h] = <<"#### ", k>>}
    IN  IF hs = {} THEN {}
        ELSE LET h == CHOOSE x \in hs : \A y \in hs : x <= y
             IN  {ls[n] : n \in {n \in (h + 1)..Len(ls) : \A m \in (h + 1)..n : Len(ls[m]) > 0}}

\* a contribution line of the j-th commit of a release: a bullet that
\* credits the author that commit was given
IsContributionOf(line, j) ==
    /\ Len(line) > 0
    /\ line[1] = "* "
    /\ Users[((j - 1) % Len(Users)) + 1].login \in Range(line)

HasCategory(commit, k) == IsPresent(commit.categories) /\ k \in Range(commit.categories[1])

\* the release has a commit in a configured category
HasConfiguredCommit(release) ==
    \E j \in 1..Len(release.commits), k \in Range(options.categories) :
        HasCategory(release.commits[j], k)

Count(text, piece) == Cardinality({i \in 1..Len(text) : text[i] = piece})

(***************************************************************************)
(* Claims checked under Spec.                                              *)
(***************************************************************************)
\* the blocks renderRelease makes of the releases the call was given
BlocksOfInput == [i \in 1..Len(input) |-> RenderRelease(input[i], options).markdown]

NonEmptyBlocks == SelectSeq(BlocksOfInput, LAMBDA b : Len(b) > 0)

\* b1, three line breaks, b2, three line breaks, ..., bn
RECURSIVE TripleJoined(_)
TripleJoined(bs) ==
    IF Len(bs) = 0 THEN <<>>
    ELSE IF Len(bs) = 1 THEN bs[1]
    ELSE TripleJoined(SubSeq(bs, 1, Len(bs) - 1)) \o <<NL, NL, NL>> \o bs[Len(bs)]

\* a release without a commit in a configured category renders to "", and
\* the document holds one release heading per other release and no line
\* break at its start
NoBlankBlock ==
    /\ \A i \in 1..Len(input) : ~HasConfiguredCommit(input[i]) => BlocksOfInput[i] = <<>>
    /\ Count(output[1], "## ") = Cardinality({i \in 1..Len(input) : HasConfiguredCommit(input[i])})
    /\ Len(output[1]) > 0 => output[1][1] # NL

\* C1 as stated: renderMarkdown returns the non-empty renderRelease blocks,
\* in input order, joined with a triple line break (the empty string when
\* there is none), and an empty release leaves no blank block
C1_AsStated ==
    lastOp = "renderMarkdown" =>
        /\ output[1] = TripleJoined(NonEmptyBlocks)
        /\ NoBlankBlock

\* C1 amended: renderMarkdown returns the non-empty renderRelease blocks, in
\* input order, joined with a triple line break and followed by two line
\* breaks; it returns the empty string when no release produced a block;
\* and an empty release leaves no blank block or extra separator
C1_RenderMarkdownJoins ==
    lastOp = "renderMarkdown" =>
        /\ output[1] = IF Len(NonEmptyBlocks) = 0 THEN <<>>
                       ELSE TripleJoined(NonEmptyBlocks) \o <<NL, NL>>
        /\ NoBlankBlock

\* a document of two releases that both produced a block
C1_Witness ==
    /\ lastOp = "renderMarkdown"
    /\ Len(input) = 2
    /\ Len(NonEmptyBlocks) = 2
    /\ NonEmptyBlocks[1] # NonEmptyBlocks[2]

\* the release passed to the last renderRelease, as it was
RenderedRelease == input[arg[1]]

\* the j-th commit of that release has a contribution line in section k
AppearsIn(j, k) == \E line \in SectionOf(output[1], k) : IsContributionOf(line, j)

\* C2 as stated: a commit appears in the section of a configured category
\* k if and only if k is a member of its categories
C2_AsStated ==
    lastOp = "renderRelease" =>
        \A j \in 1..Len(RenderedRelease.commits), k \in Range(options.categories) :
            AppearsIn(j, k) <=> HasCategory(RenderedRelease.commits[j], k)

\* C2 amended: a commit appears in the section of a configured category k
\* if and only if k is a member of its categories and the commit has a
\* linked issue; a commit whose categories are absent or match no
\* configured category appears in no section
C2_CommitInItsSections ==
    lastOp = "renderRelease" =>
        \A j \in 1..Len(RenderedRelease.commits), k \in Range(options.categories) :
            AppearsIn(j, k) <=> /\ HasCategory(RenderedRelease.commits[j], k)
                                /\ IsPresent(RenderedRelease.commits[j].githubIssue)

\* a release with a commit in both configured categories and a commit
\* without an issue
C2_Witness ==
    /\ lastOp = "renderRelease"
    /\ Len(RenderedRelease.commits) = 2
    /\ \A k \in Range(options.categories) : AppearsIn(1, k)
    /\ ~IsPresent(RenderedRelease.commits[2].githubIssue)
    /\ \E k \in Range(options.categories) : HasCategory(RenderedRelease.commits[2], k)

C9_SectionOrder ==
    lastOp = "renderRelease" =>
        SectionNames(output[1]) =
            SelectSeq(options.categories,
                      LAMBDA k : \E j \in 1..Len(RenderedRelease.commits) :
                                     HasCategory(RenderedRelease.commits[j], k))

\* two commits in the reverse of the configured order of their categories
C9_Witness ==
    /\ lastOp = "renderRelease"
    /\ Len(RenderedRelease.commits) = 2
    /\ RenderedRelease.commits[1].categories = Some(<<options.categories[2]>>)
    /\ RenderedRelease.commits[2].categories = Some(<<options.categories[1]>>)
    /\ SectionNames(output[1]) = options.categories

(***************************************************************************)
(* SpecRepeat: calls repeated on the same release objects.  The titles     *)
(* hold no, one or two closing references.                                 *)
(***************************************************************************)
RepeatOptions ==
    [categories |-> <<"Fixed", "Added">>, baseIssueUrl |-> "https://github.com/o/r/issues/",
     unreleasedName |-> "Unreleased"]

RepeatTitles ==
    { <<"a", "d", "d", " ", "x">>,
      <<"f", "i", "x", " ", "#", "4">>,
      <<"f", "i", "x", " ", "#", "4", " ", "c", "l", "o", "s", "e", "s", " ", "#", "2">> }

RepeatCommits ==
    { [categories |-> Some(cats), githubIssue |-> Some([PlainIssue EXCEPT !.title = t])] :
        cats \in {<<"Fixed">>, <<"Fixed", "Added">>}, t \in RepeatTitles }

InitRepeat == InitRenderer(RepeatOptions, <<>>)

NextRepeat ==
    \/ AddRelease("v1.0.0", "2024-01-01")
    \/ \E c \in RepeatCommits : AddCommit(c)
    \/ CallRenderMarkdown(MaxCalls)
    \/ \E i \in 1..Len(releases) : CallRenderRelease(i, MaxCalls)
    \/ \E i \in 1..Len(releases) : \E j \in 1..Len(releases[i].commits) :
           CallRenderContribution(i, j, MaxCalls)

SpecRepeat == InitRepeat /\ [][NextRepeat]_vars

\* C3: renderMarkdown (or renderRelease) called twice in succession on
\* the same release objects returns the same string both times
C3_SameStringTwice ==
    (/\ lastOp \in {"renderMarkdown", "renderRelease"}
     /\ previous.op = lastOp
     /\ previous.arg = arg) => output = previous.output

\* C4: a render call leaves every field of its input as it was
C4_InputUnchanged == lastOp # "none" => releases = input

(***************************************************************************)
(* SpecContribution: renderContribution on one issue, its title drawn from *)
(* the titles  <before><word><suffix><space><marker><digits><after>, each  *)
(* part from a small set that holds what the pattern takes and what it     *)
(* just misses.                                                            *)
(***************************************************************************)
TitleBefore == { <<>>, <<"a", " ">>, <<"7">> }

TitleWord == { <<"f", "i", "x">>, <<"C", "L", "O", "S", "E">>,
               <<"r", "e", "s", "o", "l", "v", "e">>, <<"f", "i">> }

TitleSuffix == { <<>>, <<"s">>, <<"e", "s">>, <<"d">>, <<"E", "D">>, <<"e">>, <<"s", "s">> }

TitleSpace == { <<" ">>, <<>>, <<" ", " ">> }

TitleMarker == { <<"#">>, <<"T">>, <<"t">>, <<"x">> }

TitleDigits == UNION { [1..n -> {"4", "2"}] : n \in 0..MaxDigits }

TitleRest == { <<>>, <<" ", "x">>, <<" ", "f", "i", "x", " ", "#", "9">> }

ContributionTitles ==
    { <<>> } \cup
    { b \o w \o x \o sp \o m \o d \o a :
        b \in TitleBefore, w \in TitleWord, x \in TitleSuffix, sp \in TitleSpace,
        m \in TitleMarker, d \in TitleDigits, a \in TitleRest }

ContributionIssue(t) ==
    [number |-> Absent, title |-> t, user |-> Users[1], pull_request |-> Absent,
     parsed_body |-> Absent]

InitContribution ==
    \E t \in ContributionTitles :
        InitRenderer(RepeatOptions,
                     << [name |-> "v1.0.0", date |-> "2024-01-01",
                         commits |-> << [categories |-> Some(<<"Fixed">>),
                                         githubIssue |-> Some(ContributionIssue(t))] >>] >>)

NextContribution == CallRenderContribution(1, 1, 1)

SpecContribution == InitContribution /\ [][NextContribution]_vars

\* the words a closing reference may begin with: fix, close or resolve,
\* optionally followed by s, es, d or ed
ClosingWords ==
    { w \o x : w \in { <<"f", "i", "x">>, <<"c", "l", "o", "s", "e">>,
                       <<"r", "e", "s", "o", "l", "v", "e">> },
               x \in { <<>>, <<"s">>, <<"e", "s">>, <<"d">>, <<"e", "d">> } }

LowerCase(t) == [i \in 1..Len(t) |-> Fold(t[i])]

\* at position i of title t stands a closing word (letters in either
\* case), one space, a marker out of markers and a digit
ReferenceAt(t, i, markers) ==
    \E w \in ClosingWords :
        /\ i + Len(w) + 2 <= Len(t)
        /\ LowerCase(SubSeq(t, i, i + Len(w) - 1)) = w
        /\ t[i + Len(w)] = " "
        /\ t[i + Len(w) + 1] \in markers
        /\ IsDigit(t[i + Len(w) + 2])

\* where the digits of the reference at i begin
DigitsStart(t, i, markers) ==
    LET w == CHOOSE w \in ClosingWords :
                 /\ i + Len(w) + 2 <= Len(t)
                 /\ LowerCase(SubSeq(t, i, i + Len(w) - 1)) = w
                 /\ t[i + Len(w)] = " "
                 /\ t[i + Len(w) + 1] \in markers
    IN  i + Len(w) + 2

\* the first position from d on that holds no digit
DigitsStop(t, d) ==
    CHOOSE e \in d..(Len(t) + 1) :
        /\ \A n \in d..(e - 1) : IsDigit(t[n])
        /\ e = Len(t) + 1 \/ ~IsDigit(t[e])

\* title t with the reference at i replaced by the link to its number N
WithClosesLink(t, i, markers) ==
    LET d == DigitsStart(t, i, markers)
        e == DigitsStop(t, d)
        N == SubSeq(t, d, e - 1)
    IN  SubSeq(t, 1, i - 1)
        \o <<"C", "l", "o", "s", "e", "s", " ", "[", "#">> \o N
        \o <<"]", "(", options.baseIssueUrl>> \o N \o <<")">>
        \o SubSeq(t, e, Len(t))

\* the title passed to the last renderContribution, and the title in the
\* line it returned: the line without the credit of the author
TitleIn == input[1].commits[1].githubIssue[1].title

TitleOut == SubSeq(output[1], 1, Len(output[1]) - 5)

\* C5 as stated: the title is rewritten exactly when it starts with
\* fix/close/resolve (s/es/d/ed), a space, 'T' or '#' and digits N; then
\* that span becomes the link and the rest is kept; any other title is
\* emitted unchanged
C5_AsStated ==
    lastOp = "renderContribution" =>
        TitleOut = IF ReferenceAt(TitleIn, 1, {"T", "#"})
                   THEN WithClosesLink(TitleIn, 1, {"T", "#"})
                   ELSE TitleIn

\* the start of the leftmost closing reference of a title
FirstReference(t) ==
    CHOOSE i \in 1..Len(t) :
        /\ ReferenceAt(t, i, {"T", "t", "#"})
        /\ \A j \in 1..(i - 1) : ~ReferenceAt(t, j, {"T", "t", "#"})

\* C5 amended: the title is rewritten exactly when it contains, at any
\* position, fix/close/resolve (s/es/d/ed; letters in either case), one
\* space, 'T', 't' or '#', and digits N; then the leftmost such span alone
\* becomes 'Closes [#N](<baseIssueUrl>N)' and the rest is kept; any other
\* title is emitted unchanged
C5_FirstReferenceRewritten ==
    lastOp = "renderContribution" =>
        TitleOut = IF \E i \in 1..Len(TitleIn) : ReferenceAt(TitleIn, i, {"T", "t", "#"})
                   THEN WithClosesLink(TitleIn, FirstReference(TitleIn), {"T", "t", "#"})
                   ELSE TitleIn

\* a title rewritten at a reference that is not at its start and is
\* followed by another reference, which is kept
C5_Witness ==
    /\ lastOp = "renderContribution"
    /\ \E i \in 2..Len(TitleIn) : ReferenceAt(TitleIn, i, {"T", "t", "#"})
    /\ FirstReference(TitleIn) > 1
    /\ \E i \in (FirstReference(TitleIn) + 1)..Len(TitleIn) : ReferenceAt(TitleIn, i, {"T", "t", "#"})
    /\ TitleOut # TitleIn

(***************************************************************************)
(* SpecExtract: getSecurityTestTarget on the commits of one release, whose *)
(* parsed bodies hold blocks of several types and headers and rows of      *)
(* several shapes.                                                         *)
(***************************************************************************)
KindCell == <<HEADER_KIND>>

TargetCell == <<HEADER_TARGET>>

ExtractCommits ==
    { [categories |-> Some(<<"Fixed">>),
       githubIssue |-> Some([PlainIssue EXCEPT !.parsed_body = Some(<<>>)])],
      [categories |-> Some(<<"Fixed">>), githubIssue |-> Some(PlainIssue)],
      [categories |-> Some(<<"Fixed">>), githubIssue |-> Absent] }

ExtractBlocks ==
    { [type |-> "table", header |-> <<KindCell, TargetCell>>, cells |-> <<>>],
      [type |-> "table", header |-> << <<HEADER_KIND, ",", HEADER_TARGET>> >>, cells |-> <<>>],
      [type |-> "table", header |-> <<TargetCell, KindCell>>, cells |-> <<>>],
      [type |-> "table", header |-> <<KindCell, TargetCell, <<>> >>, cells |-> <<>>],
      [type |-> "table", header |-> <<KindCell>>, cells |-> <<>>],
      [type |-> "paragraph", header |-> <<KindCell, TargetCell>>, cells |-> <<>>] }

ExtractRows ==
    { <<TYPE_URL, <<"a">> >>,
      <<TYPE_URL, <<"b">> >>,
      << <<"Q", "u", "e", "r", "y">>, <<"a">> >>,
      << <<"M", "u", "t", "a", "t", "i", "o", "n">>, <<"a">> >>,
      << <<"S", "u", "b", "s", "c", "r", "i", "p", "t", "i", "o", "n">>, <<"a">> >>,
      << <<"u", "r", "l">>, <<"a">> >>,
      <<TYPE_URL, <<>> >>,
      <<TYPE_URL>>,
      <<TYPE_URL, <<"a">>, <<"b">> >> }

InitExtract ==
    InitRenderer(RepeatOptions, << [name |-> "v1.0.0", date |-> "2024-01-01", commits |-> <<>>] >>)

NextExtract ==
    \/ \E c \in ExtractCommits : AddCommit(c)
    \/ \E x \in ExtractBlocks : AddBlock(x)
    \/ \E c \in ExtractRows : AddRow(c)
    \/ CallGetSecurityTestTarget(1, 1)

SpecExtract == InitExtract /\ [][NextExtract]_vars

\* the rows of the blocks accepted by IsMarked, in commit, block and row order
RowsOf(commits, IsMarked(_)) ==
    Flatten([j \in 1..Len(commits) |->
        IF IsPresent(ParsedBody(commits[j]))
        THEN Flatten([n \in 1..Len(ParsedBody(commits[j])[1]) |->
                 IF IsMarked(ParsedBody(commits[j])[1][n])
                 THEN ParsedBody(commits[j])[1][n].cells
                 ELSE <<>>])
        ELSE <<>>])

\* a row with a type cell and a non-empty name cell
IsNamedRow(c) == Len(c) >= 2 /\ Len(c[2]) > 0

IsUrlRow(c) == IsNamedRow(c) /\ c[1] = <<"U", "R", "L">>

IsApiRow(c) ==
    /\ IsNamedRow(c)
    /\ c[1] \in { <<"Q", "u", "e", "r", "y">>,
                  <<"M", "u", "t", "a", "t", "i", "o", "n">>,
                  <<"S", "u", "b", "s", "c", "r", "i", "p", "t", "i", "o", "n">> }

NamesOfUrls(rows) ==
    [n \in 1..Len(SelectSeq(rows, IsUrlRow)) |-> SelectSeq(rows, IsUrlRow)[n][2]]

NamesOfApis(rows) ==
    [n \in 1..Len(SelectSeq(rows, IsApiRow)) |->
        <<"(">> \o SelectSeq(rows, IsApiRow)[n][1] \o <<")", " ">> \o SelectSeq(rows, IsApiRow)[n][2]]

\* a table whose header is exactly the two marker cells
HasTwoMarkerCells(x) == x.type = "table" /\ x.header = << <<HEADER_KIND>>, <<HEADER_TARGET>> >>

\* a table whose header cells, joined with ",", read as the marker text
HasMarkerText(x) ==
    /\ x.type = "table"
    /\ \/ x.header = << <<HEADER_KIND>>, <<HEADER_TARGET>> >>
       \/ x.header = << <<HEADER_KIND, ",", HEADER_TARGET>> >>

ExtractedFrom(IsMarked(_)) ==
    lastOp = "getSecurityTestTarget" =>
        /\ lastTarget.urls = NamesOfUrls(RowsOf(releases[arg[1]].commits, IsMarked))
        /\ lastTarget.apis = NamesOfApis(RowsOf(releases[arg[1]].commits, IsMarked))

\* C6 as stated: the rows are taken from the tables whose header is exactly
\* the two marker cells, and from no other block.
C6_AsStated == ExtractedFrom(HasTwoMarkerCells)

\* C6: getSecurityTestTarget reads, in commit order, every table block whose
\* header cells joined with "," give the marker text (the two marker cells, or
\* one cell holding the whole text); a row with type URL and a non-empty name
\* appends the name to urls, a row with type Query, Mutation or Subscription
\* and a non-empty name appends "(type) name" to apis, every other row is
\* skipped, and nothing is deduplicated.
C6_ExtractsMarkedTables == ExtractedFrom(HasMarkerText)

\* both forms of the header contributed a row, and the name is there twice
C6_Witness ==
    /\ lastOp = "getSecurityTestTarget"
    /\ Len(lastTarget.urls) = 2
    /\ lastTarget.urls[1] = lastTarget.urls[2]
    /\ \E j \in 1..Len(releases[1].commits) :
           /\ IsPresent(ParsedBody(releases[1].commits[j]))
           /\ \E n \in 1..Len(ParsedBody(releases[1].commits[j])[1]) :
                  /\ Len(ParsedBody(releases[1].commits[j])[1][n].header) = 1
                  /\ Len(ParsedBody(releases[1].commits[j])[1][n].cells) = 1

(***************************************************************************)
(* SpecAppendix: renderRelease on one release whose issues carry a marked  *)
(* table each; the rows are added one by one.                              *)
(***************************************************************************)
MarkedTable == [type |-> "table", header |-> <<KindCell, TargetCell>>, cells |-> <<>>]

MarkedIssue == [PlainIssue EXCEPT !.parsed_body = Some(<<MarkedTable>>)]

AppendixCommits ==
    { [categories |-> Some(<<"Fixed">>), githubIssue |-> Some(MarkedIssue)],
      [categories |-> Some(<<"Added", "Fixed">>), githubIssue |-> Some(MarkedIssue)],
      [categories |-> Some(<<"Chore">>), githubIssue |-> Some(MarkedIssue)],
      [categories |-> Some(<<"Added">>), githubIssue |-> Some(PlainIssue)] }

AppendixRows ==
    { <<TYPE_URL, <<"a">> >>,
      <<TYPE_URL, <<"b">> >>,
      <<TYPE_URL, <<"a", "b">> >>,
      <<TYPE_URL, <<"B">> >>,
      << <<"Q", "u", "e", "r", "y">>, <<"a">> >>,
      << <<"Q", "u", "e", "r", "y">>, <<"b">> >>,
      << <<"M", "u", "t", "a", "t", "i", "o", "n">>, <<"b">> >> }

InitAppendix ==
    InitRenderer(RepeatOptions, << [name |-> "v1.0.0", date |-> "2024-01-01", commits |-> <<>>] >>)

NextAppendix ==
    \/ \E c \in AppendixCommits : AddCommit(c)
    \/ \E c \in AppendixRows : AddRow(c)
    \/ CallRenderRelease(1, 1)

SpecAppendix == InitAppendix /\ [][NextAppendix]_vars

\* the commits of the rendered release that are in a configured category
ConfiguredCommits ==
    SelectSeq(RenderedRelease.commits,
              LAMBDA c : \E k \in Range(options.categories) : HasCategory(c, k))

\* the distinct entries those commits ask for
UrlEntries == Range(NamesOfUrls(RowsOf(ConfiguredCommits, HasMarkerText)))

ApiEntries == Range(NamesOfApis(RowsOf(ConfiguredCommits, HasMarkerText)))

\* the places of a line in a list of lines
PlacesOf(ls, line) == {h \in 1..Len(ls) : ls[h] = line}

\* the lines that follow line h, up to the next empty line
Following(ls, h) ==
    SelectSeq([n \in 1..(Len(ls) - h) |-> h + n],
              LAMBDA n : \A m \in (h + 1)..n : Len(ls[m]) > 0)

\* the entries listed under the first subsection heading of that name
Listed(block, heading) ==
    IF PlacesOf(Lines(block), <<heading>>) = {} THEN <<>>
    ELSE [n \in 1..Len(Following(Lines(block),
                                 CHOOSE h \in PlacesOf(Lines(block), <<heading>>) :
                                     \A y \in PlacesOf(Lines(block), <<heading>>) : h <= y)) |->
             Lines(block)[Following(Lines(block),
                                    CHOOSE h \in PlacesOf(Lines(block), <<heading>>) :
                                        \A y \in PlacesOf(Lines(block), <<heading>>) : h <= y)[n]]]

\* a before b in the order of the code units, a proper prefix first
LexLess(a, b) ==
    \E k \in 1..(Len(a) + 1) :
        /\ \A m \in 1..(k - 1) : m <= Len(b) /\ a[m] = b[m]
        /\ k <= Len(b)
        /\ (k <= Len(a) => CodeUnit(a[k]) < CodeUnit(b[k]))

\* the lines are the bullets of the entries, each once, in ascending order
ListsOnceAscending(lines, entries) ==
    /\ \A n \in 1..Len(lines) : Len(lines[n]) > 0 /\ lines[n][1] = "* "
    /\ {Tail(lines[n]) : n \in 1..Len(lines)} = entries
    /\ \A n \in 1..(Len(lines) - 1) : LexLess(Tail(lines[n]), Tail(lines[n + 1]))

\* C7: the appendix of a release block lists each distinct URL entry of the
\* release's configured commits exactly once and each distinct API entry
\* exactly once, each list in ascending lexicographic order, also when an
\* entry is there in several commits or the commit is in several categories.
C7_EntriesOnceSorted ==
    lastOp = "renderRelease" =>
        /\ ListsOnceAscending(Listed(output[1], "##### URL"), UrlEntries)
        /\ ListsOnceAscending(Listed(output[1], "##### API"), ApiEntries)

\* a commit in two categories asks for b and then for a; another commit may
\* ask again
C7_Witness ==
    /\ lastOp = "renderRelease"
    /\ Len(RenderedRelease.commits) > 0
    /\ RenderedRelease.commits[1].categories = Some(<<"Added", "Fixed">>)
    /\ ParsedBody(RenderedRelease.commits[1])[1][1].cells = << <<TYPE_URL, <<"b">> >>, <<TYPE_URL, <<"a">> >> >>
    /\ Listed(output[1], "##### URL") = << <<"* ", "a">>, <<"* ", "b">> >>

\* C10: a release block holds the appendix, once, after every category
\* section and after an empty line, exactly when the configured commits of
\* the release ask for a URL or an API entry; the appendix holds the URL
\* subsection exactly when there is a URL entry and the API subsection
\* exactly when there is an API entry.
C10_AppendixPresence ==
    lastOp = "renderRelease" =>
        LET ls == Lines(output[1])
            hs == {h \in 1..Len(ls) : IsAppendixHeading(ls[h])}
        IN  /\ (hs # {}) <=> (UrlEntries \cup ApiEntries # {})
            /\ Cardinality(hs) <= 1
            /\ \A h \in hs :
                   /\ h > 1 /\ ls[h - 1] = <<>>
                   /\ \A n \in 1..Len(ls) : IsCategoryHeading(ls[n]) => n < h
                   /\ \A n \in PlacesOf(ls, <<"##### URL">>) \cup PlacesOf(ls, <<"##### API">>) : n > h
            /\ (PlacesOf(ls, <<"##### URL">>) # {}) <=> (UrlEntries # {})
            /\ (PlacesOf(ls, <<"##### API">>) # {}) <=> (ApiEntries # {})

\* one URL row: a URL subsection and no API subsection
C10_Witness ==
    /\ lastOp = "renderRelease"
    /\ Len(RowsOf(ConfiguredCommits, HasMarkerText)) = 1
    /\ UrlEntries = { <<"a">> }
    /\ PlacesOf(Lines(output[1]), <<"##### URL">>) # {}
    /\ PlacesOf(Lines(output[1]), <<"##### API">>) = {}
    /\ \E h \in 1..Len(Lines(output[1])) : IsAppendixHeading(Lines(output[1])[h])

====
